---- MODULE Spec2Model ----
(***************************************************************************)
(* Room coordinator and abuse-mitigation layer of the tic-tac-toe relay    *)
(* server: GameRoomManager, RateLimiter (connection tracking, per-socket   *)
(* rate limits, payload size) and the Socket.IO wiring of server/index.ts. *)
(*                                                                         *)
(* Socket.IO is modelled by what the handlers use of it: adapter.rooms (a  *)
(* map from room name to an insertion-ordered set of socket ids, in which  *)
(* every connected socket is a member of the room named by its own id),    *)
(* io.sockets.sockets, socket.join / leave / to(room).emit / io.to(room)   *)
(* .emit / disconnect(true).  RateLimiterMemory is modelled as the fixed   *)
(* window it keeps per key: the first consume of a key opens a window of   *)
(* `duration`, every consume in the window adds one point, and the record  *)
(* is dropped when the window ends.                                        *)
(*                                                                         *)
(* Every `await` of a rate-limit check is a suspension point: the handler  *)
(* is split into the part up to the await (the XxxEvent actions, which     *)
(* consume the point) and the part after it (the XxxResume actions).       *)
(*                                                                         *)
(* The arguments of an event are whatever JSON values the client sent; the *)
(* parameter types of the listeners are erased at run time.  A room name   *)
(* is a string or a one-element array of a string.                         *)
(***************************************************************************)
EXTENDS Integers, Sequences, FiniteSets, TLC

(***************************************************************************)
(* Program constants.  The numeric limits are scaled down so that the      *)
(* limits are reached inside the bounds; their relations are kept          *)
(* (duration < inactivity timeout, 2 players per room).                    *)
(***************************************************************************)
MAX_PLAYERS_PER_ROOM == 2
MAX_ROOM_NAME_LENGTH == 20
\* src/shared/constants.ts:33 has 10_000
MAX_TOTAL_ROOMS == 2
\* src/shared/constants.ts:39 has 102_400
MAX_GAME_STATE_SIZE == 4
\* src/shared/constants.ts:45 has 100
MAX_CONNECTIONS_PER_IP == 2
\* src/shared/constants.ts:25 has 600_000 ms; here in clock ticks
ROOM_INACTIVITY_TIMEOUT_MS == 3
\* src/shared/constants.ts:54-60 has 5, 30, 10, 10 points per 10 s
JOIN_ROOM_POINTS == 2
GAME_STATE_POINTS == 3
REQUEST_STATE_POINTS == 2
SEND_STATE_POINTS == 2
\* the common `duration` of RATE_LIMITS, in clock ticks
RATE_DURATION == 2

RATE_LIMITS ==
    [ JOIN_ROOM     |-> [points |-> JOIN_ROOM_POINTS,     duration |-> RATE_DURATION],
      GAME_STATE    |-> [points |-> GAME_STATE_POINTS,    duration |-> RATE_DURATION],
      REQUEST_STATE |-> [points |-> REQUEST_STATE_POINTS, duration |-> RATE_DURATION],
      SEND_STATE    |-> [points |-> SEND_STATE_POINTS,    duration |-> RATE_DURATION] ]

Kinds == DOMAIN RATE_LIMITS

\* ROOM_NAME_REGEX = /^[a-zA-Z0-9-]+$/ : the characters of its class
RoomNameChars ==
    { "a","b","c","d","e","f","g","h","i","j","k","l","m",
      "n","o","p","q","r","s","t","u","v","w","x","y","z",
      "A","B","C","D","E","F","G","H","I","J","K","L","M",
      "N","O","P","Q","R","S","T","U","V","W","X","Y","Z",
      "0","1","2","3","4","5","6","7","8","9","-" }

ROOM_NAME_REGEX(str) ==
    /\ Len(str) >= 1
    /\ \A i \in 1..Len(str) : SubSeq(str, i, i) \in RoomNameChars

(***************************************************************************)
(* Bounds of the model.                                                    *)
(***************************************************************************)
\* handlers suspended at their await at one time, over all connections
MaxPending == 2
\* the same, in the specifications that follow one handler at a time
MaxPendingRooms == 1
\* consumes past `points` that one limiter record takes before its window ends
MaxOverdraw == 1

\* Connection identities: Socket.IO ids are 20 characters of [A-Za-z0-9_-].
Sid1 == "AAAAAAAAAAAAAAAAAAA1"
Sid2 == "AAAAAAAAAAAAAAAAAAA2"
Sid3 == "AAAAAAAAAAA_AAAAAAA3"
Sid4 == "AAAAAAAAAAAAAAAAAAA4"
SocketIds == {Sid1, Sid2, Sid3, Sid4}

Ip1 == "10.0.0.1"
Ip2 == "10.0.0.2"
Addresses == { Ip1, Ip2 }

\* Room names a client sends with join-room.  A string stands for itself;
\* "[lobby]" stands for the array ["lobby"] (no string of the model starts
\* with "[").
GameRoomNames == { "lobby", "room-2" }
BadRoomNames  == { "", "bad_name", "aaaaaaaaaaaaaaaaaaaaa" }
ArrayNames    == { "[lobby]" }
SpareRoomNames == { "room-3" }
RoomNames     == GameRoomNames \cup SpareRoomNames \cup BadRoomNames
                     \cup ArrayNames \cup { Sid1 }

IsArray(v) == Len(v) >= 1 /\ SubSeq(v, 1, 1) = "["

\* the element of a one-element array
ArrayElement(v) == SubSeq(v, 2, Len(v) - 1)

\* String(v), the coercion RegExp.prototype.test applies to its argument
StringOf(v) == IF IsArray(v) THEN ArrayElement(v) ELSE v

\* v.length: the characters of a string, the elements of an array
LengthOf(v) == IF IsArray(v) THEN 1 ELSE Len(v)

\* The room socket.join(v), socket.to(v) and io.to(v) resolve v to: these
\* take a room or an array of rooms.  adapter.rooms.get(v) and
\* socket.leave(v) do not: an array is a key of no room.
RoomOf(v) == IF IsArray(v) THEN ArrayElement(v) ELSE v

\* Keys of adapter.rooms.
RoomKeys == RoomNames \cup SocketIds

\* State blobs (JS string values) and the two values JSON.stringify cannot size.
Undefined == "<undefined>"
Cyclic    == "<cyclic>"
Blobs     == { "x", "xy", "xyz", Undefined, Cyclic }

\* Strings are written in ASCII here: the character # in a blob stands for one
\* character outside ASCII such as U+00E9, which JSON.stringify leaves as it
\* is: one UTF-16 code unit of the serialization, two bytes of its UTF-8 form.
WideChars == { "#" }
WideBlobs == { "#", "x#" }

Null    == "<null>"
NoTimer == -1
NoEntry == -1
NoIp    == "<none>"
Server  == "<server>"

VARIABLES
    sockets,            \* io.sockets.sockets: ids of the connected sockets
    socketIp,           \* socket.data.ip of every socket ever admitted
    connectionCounts,   \* RateLimiter.connectionCounts (NoEntry: no entry)
    rooms,              \* io.sockets.adapter.rooms (<<>>: no entry)
    currentRoom,        \* the closure variable of handleConnection, per socket
    pending,            \* handlers suspended at their await, per socket, oldest first
    roomTimeouts,       \* GameRoomManager.roomTimeouts: ticks left (NoTimer: no entry)
    timers,             \* the pending Timeout objects: what setTimeout returned and
                        \* neither clearTimeout cancelled nor the clock ran out
    limiter,            \* the four RateLimiterMemory stores
    admitted,           \* per limiter key, admits by age in ticks (ages below duration)
    last                \* the step just taken: what was handled and what it emitted

vars == << sockets, socketIp, connectionCounts, rooms, currentRoom, pending,
           roomTimeouts, timers, limiter, admitted, last >>

(***************************************************************************)
(* Socket.IO adapter: rooms are insertion-ordered sets of socket ids.      *)
(***************************************************************************)
SeqToSet(q) == { q[i] : i \in 1..Len(q) }

\* Set.add / Set.delete on an insertion-ordered set
SetAdd(q, x) == IF x \in SeqToSet(q) THEN q ELSE Append(q, x)
SetDelete(q, x) == SelectSeq(q, LAMBDA y : y # x)

NoBlob == "<no-state>"

\* A send-state event emitted without a payload: `data` is undefined.
NoPayload == "<no-payload>"

\* One outbound packet.  Fields a packet does not carry hold their default.
Packet(event, to, from) ==
    [ event |-> event, to |-> to, from |-> from, state |-> NoBlob,
      playerCount |-> 0, requesterId |-> Null,
      success |-> FALSE, error |-> "", isRoomOwner |-> FALSE ]

\* The sockets a broadcast to `room` reaches: the members of the room that are
\* connected sockets, the ids in `except` left out, in room order.
Receivers(W, room, except) ==
    SelectSeq(W.rooms[RoomOf(room)], LAMBDA m : m \in W.sockets /\ m \notin except)

\* socket.to(room).emit(...) and io.to(room).emit(...): one packet per receiver
Broadcast(W, room, except, pkt) ==
    LET to == Receivers(W, room, except)
    IN  [ i \in 1..Len(to) |-> [pkt EXCEPT !.to = to[i]] ]

(***************************************************************************)
(* GameRoomManager: room utilities and timeout management.  W is the       *)
(* process state a handler works on: rooms, roomTimeouts, sockets,         *)
(* connectionCounts, and what the handler has done so far: out, the        *)
(* packets it emitted, and scheduled, the rooms it called setTimeout for.  *)
(***************************************************************************)
getRoomPlayerCount(W, roomName) == Len(W.rooms[roomName])

\* getTotalRoomCount short by one, as a capacity check made with > instead of
\* >= would see it
getTotalRoomCountShortByOne(W) ==
    Cardinality({ r \in DOMAIN W.roomTimeouts : W.roomTimeouts[r] # NoTimer }) - 1

getTotalRoomCount(W) ==
    Cardinality({ r \in DOMAIN W.roomTimeouts : W.roomTimeouts[r] # NoTimer })

\* A Timeout object: the room name its callback closes over and the ticks
\* left; a roomTimeouts entry of n ticks holds the object Timeout(key, n).
Timeout(roomName, left) == [ roomName |-> roomName, left |-> left ]

\* setTimeout(() => disconnectRoom(roomName), ROOM_INACTIVITY_TIMEOUT_MS)
setTimeout(T, roomName) == T \cup { Timeout(roomName, ROOM_INACTIVITY_TIMEOUT_MS) }

\* clearTimeout(timeout): nothing happens when the timer has fired already
clearTimeout(T, timeout) == T \ { timeout }

resetRoomTimeout(W, roomName) ==
    LET existingTimeout == W.roomTimeouts[roomName]
        T == IF existingTimeout # NoTimer
             THEN clearTimeout(W.timers, Timeout(roomName, existingTimeout))
             ELSE W.timers
    IN  [W EXCEPT !.timers = setTimeout(T, roomName),
                  !.roomTimeouts[roomName] = ROOM_INACTIVITY_TIMEOUT_MS,
                  !.scheduled = @ \cup {roomName}]

clearRoomTimeout(W, roomName) ==
    LET timeout == W.roomTimeouts[roomName]
    IN  IF timeout # NoTimer
        THEN [W EXCEPT !.timers = clearTimeout(@, Timeout(roomName, timeout)),
                       !.roomTimeouts[roomName] = NoTimer]
        ELSE W

leaveCurrentRoom(W, s, roomName) ==
    LET W1 == [W EXCEPT !.out = @ \o Broadcast(W, roomName, {s},
                                        Packet("player-left", Null, s))]
        W2 == [W1 EXCEPT !.rooms[roomName] = SetDelete(@, s)]
    IN  IF getRoomPlayerCount(W2, roomName) = 0
        THEN clearRoomTimeout(W2, roomName)
        ELSE W2

(***************************************************************************)
(* RateLimiter: connection tracking.                                       *)
(***************************************************************************)
\* connectionCounts.get(ip) || 0
CountOf(counts, ip) == IF counts[ip] = NoEntry THEN 0 ELSE counts[ip]

\* Faulty variant of the connection cap: off by one.
trackConnectionAllowedOffByOne(counts, ip) ==
    ~(CountOf(counts, ip) > MAX_CONNECTIONS_PER_IP)

trackConnectionAllowed(counts, ip) ==
    ~(CountOf(counts, ip) >= MAX_CONNECTIONS_PER_IP)

trackConnection(counts, ip) ==
    IF trackConnectionAllowed(counts, ip)
    THEN [counts EXCEPT ![ip] = CountOf(counts, ip) + 1]
    ELSE counts

\* Faulty variant of releaseConnection: the entry is decremented, never deleted.
releaseConnectionKeepsEntry(counts, ip) ==
    [counts EXCEPT ![ip] = CountOf(counts, ip) - 1]

releaseConnection(counts, ip) ==
    IF CountOf(counts, ip) <= 1
    THEN [counts EXCEPT ![ip] = NoEntry]
    ELSE [counts EXCEPT ![ip] = CountOf(counts, ip) - 1]

(***************************************************************************)
(* RateLimiter: the per-socket limiters (RateLimiterMemory.consume).       *)
(***************************************************************************)
NoRecord == [consumed |-> 0, ttl |-> 0]

consumeFromEveryLimiter(lim, kind, socketId) ==
    [ k \in DOMAIN lim |->
        IF lim[k][socketId].ttl = 0
        THEN [lim[k] EXCEPT ![socketId] =
                 [consumed |-> 1, ttl |-> RATE_LIMITS[k].duration]]
        ELSE [lim[k] EXCEPT ![socketId].consumed = @ + 1] ]

consume(lim, kind, socketId) ==
    LET rec == lim[kind][socketId]
    IN  IF rec.ttl = 0
        THEN [lim EXCEPT ![kind][socketId] =
                 [consumed |-> 1, ttl |-> RATE_LIMITS[kind].duration]]
        ELSE [lim EXCEPT ![kind][socketId].consumed = @ + 1]

\* checkJoinRoomLimit .. checkRequestStateLimit: consume resolves (true) when the
\* points consumed in the window, this one included, do not exceed `points`
checkLimit(lim, kind, socketId) ==
    consume(lim, kind, socketId)[kind][socketId].consumed <= RATE_LIMITS[kind].points

(***************************************************************************)
(* RateLimiter: payload validation.  JSON.stringify of a string value is   *)
(* the string in quotes; of undefined it is undefined, whose .length       *)
(* throws; of a cyclic value it throws.  Both throws are caught.           *)
(***************************************************************************)
JsonStringifyThrows(state) == state \in {Undefined, Cyclic}

JsonStringifyLength(state) == Len(state) + 2

validateGameStateSize(state) ==
    IF JsonStringifyThrows(state)
    THEN FALSE
    ELSE JsonStringifyLength(state) <= MAX_GAME_STATE_SIZE

(***************************************************************************)
(* Socket disconnection (Socket.IO Socket._onclose): the socket leaves all *)
(* its rooms and io.sockets.sockets, then the two 'disconnect' listeners   *)
(* run: releaseConnection (index.ts) and handleDisconnect.                 *)
(***************************************************************************)
handleDisconnect(W, s, cur) ==
    IF cur # Null THEN leaveCurrentRoom(W, s, cur) ELSE W

onDisconnectWithoutLeaveAll(W, s, ip, cur) ==
    LET W1 == [W EXCEPT !.sockets = @ \ {s}]
        W2 == IF ip # NoIp
              THEN [W1 EXCEPT !.connectionCounts = releaseConnection(@, ip)]
              ELSE W1
    IN  handleDisconnect(W2, s, cur)

onDisconnect(W, s, ip, cur) ==
    LET W1 == [W EXCEPT !.rooms = [r \in RoomKeys |-> SetDelete(W.rooms[r], s)],
                        !.sockets = @ \ {s}]
        W2 == IF ip # NoIp
              THEN [W1 EXCEPT !.connectionCounts = releaseConnection(@, ip)]
              ELSE W1
    IN  handleDisconnect(W2, s, cur)

(***************************************************************************)
(* GameRoomManager.disconnectRoom, the callback of a room's timer.         *)
(***************************************************************************)
RECURSIVE disconnectEach(_, _, _, _)
disconnectEach(W, ids, ips, curs) ==
    IF ids = <<>>
    THEN W
    ELSE LET socketId == Head(ids)
         IN  disconnectEach(
                 IF socketId \in W.sockets
                 THEN onDisconnect(W, socketId, ips[socketId], curs[socketId])
                 ELSE W,
                 Tail(ids), ips, curs)

\* disconnectRoom returning at once when the room is gone, its timer entry
\* left behind
disconnectRoomKeepsEntry(W, roomName, ips, curs) ==
    LET room == W.rooms[roomName]
    IN  IF room = <<>>
        THEN W
        ELSE LET W1 == [W EXCEPT !.out = @ \o Broadcast(W, roomName, {},
                                             Packet("room-timeout", Null, Server))]
                 W2 == disconnectEach(W1, room, ips, curs)
             IN  [W2 EXCEPT !.roomTimeouts[roomName] = NoTimer]

\* disconnectRoom disconnecting the members before it emits room-timeout
disconnectRoomDisconnectsFirst(W, roomName, ips, curs) ==
    LET room == W.rooms[roomName]
    IN  IF room = <<>>
        THEN [W EXCEPT !.roomTimeouts[roomName] = NoTimer]
        ELSE LET W1 == disconnectEach(W, room, ips, curs)
                 W2 == [W1 EXCEPT !.out = @ \o Broadcast(W1, roomName, {},
                                              Packet("room-timeout", Null, Server))]
             IN  [W2 EXCEPT !.roomTimeouts[roomName] = NoTimer]

disconnectRoom(W, roomName, ips, curs) ==
    LET room == W.rooms[roomName]
    IN  IF room = <<>>
        THEN [W EXCEPT !.roomTimeouts[roomName] = NoTimer]
        ELSE LET W1 == [W EXCEPT !.out = @ \o Broadcast(W, roomName, {},
                                             Packet("room-timeout", Null, Server))]
                 W2 == disconnectEach(W1, room, ips, curs)
             IN  [W2 EXCEPT !.roomTimeouts[roomName] = NoTimer]

(***************************************************************************)
(* ServerHealth.getStats: every room of the adapter whose name is not the  *)
(* id of an open connection counts as a game room, and its size is added   *)
(* to the players.                                                         *)
(***************************************************************************)
RECURSIVE SumOfSizes(_, _)
SumOfSizes(roomMap, names) ==
    IF names = {} THEN 0
    ELSE LET roomName == CHOOSE n \in names : TRUE
         IN  Len(roomMap[roomName]) + SumOfSizes(roomMap, names \ {roomName})

getStats(W) ==
    LET gameRooms == { roomName \in DOMAIN W.rooms :
                          W.rooms[roomName] # <<>> /\ roomName \notin W.sockets }
    IN  [ activeRooms |-> Cardinality(gameRooms),
          activePlayers |-> SumOfSizes(W.rooms, gameRooms) ]

(***************************************************************************)
(* GameRoomManager: the event handlers, after their rate-limit check.      *)
(* Each yields the state W it leaves; handleJoinRoom also yields the value *)
(* it returns, which the JOIN_ROOM listener assigns to currentRoom.        *)
(***************************************************************************)
IsValidRoomName(roomName) ==
    /\ roomName # ""
    /\ ROOM_NAME_REGEX(StringOf(roomName))
    /\ LengthOf(roomName) <= MAX_ROOM_NAME_LENGTH

\* the room capacity check of handleJoinRoom
RoomIsFull(playerCount) == playerCount >= MAX_PLAYERS_PER_ROOM

JoinAck(s, success, error, isRoomOwner, playerCount) ==
    [Packet("join-room-ack", s, Server) EXCEPT
        !.success = success, !.error = error,
        !.isRoomOwner = isRoomOwner, !.playerCount = playerCount]

JoinFailureWithoutAck(W, s, cur, error) ==
    [ W |-> W, ret |-> cur ]

JoinFailure(W, s, cur, error) ==
    [ W |-> [W EXCEPT !.out = @ \o << JoinAck(s, FALSE, error, FALSE, 0) >>],
      ret |-> cur ]

handleJoinRoom(W, s, roomName, cur, allowed) ==
    IF ~allowed
    THEN JoinFailure(W, s, cur, "Too many requests. Please slow down.")
    ELSE IF ~IsValidRoomName(roomName)
    THEN JoinFailure(W, s, cur, "Invalid room name.")
    ELSE LET playerCount == getRoomPlayerCount(W, roomName)
         IN  IF playerCount = 0 /\ getTotalRoomCount(W) >= MAX_TOTAL_ROOMS
             THEN JoinFailure(W, s, cur,
                              "Server is at capacity. Please try again later.")
             ELSE IF RoomIsFull(playerCount)
             THEN JoinFailure(W, s, cur, "Maximum 2 players allowed.")
             ELSE LET W1 == IF cur # Null THEN leaveCurrentRoom(W, s, cur) ELSE W
                      W2 == [W1 EXCEPT !.rooms[RoomOf(roomName)] = SetAdd(@, s)]
                      isRoomOwner == playerCount = 0
                      newPlayerCount == playerCount + 1
                      W3 == [W2 EXCEPT !.out = @ \o Broadcast(W2, roomName, {s},
                                [Packet("player-joined", Null, s) EXCEPT
                                    !.playerCount = newPlayerCount])]
                      W4 == resetRoomTimeout(W3, roomName)
                  IN  [ W |-> [W4 EXCEPT !.out = @ \o
                                  << JoinAck(s, TRUE, "", isRoomOwner, newPlayerCount) >>],
                        ret |-> roomName ]

\* handleJoinRoom when the client sent no acknowledgment function: every path
\* of the handler ends in `callback(...)`, which throws a TypeError; the catch
\* block calls `callback` again, so the error leaves the handler after all the
\* effects that precede the call, and nothing is returned.
handleJoinRoomWithoutCallback(W, s, roomName, cur, allowed) ==
    LET r == handleJoinRoom(W, s, roomName, cur, allowed)
    IN  [r.W EXCEPT !.out = SubSeq(@, 1, Len(@) - 1)]

LeaveAck(s) == [Packet("leave-room-ack", s, Server) EXCEPT !.success = TRUE]

\* handleLeaveRoom returning before the acknowledgement when there is no
\* current room
handleLeaveRoomNoAck(W, s, cur) ==
    IF cur # Null
    THEN [leaveCurrentRoom(W, s, cur) EXCEPT !.out = @ \o << LeaveAck(s) >>]
    ELSE W

handleLeaveRoom(W, s, cur) ==
    LET W1 == IF cur # Null THEN leaveCurrentRoom(W, s, cur) ELSE W
    IN  [W1 EXCEPT !.out = @ \o << LeaveAck(s) >>]

handleGameState(W, s, cur, state, allowed) ==
    IF ~allowed THEN W
    ELSE IF ~validateGameStateSize(state) THEN W
    ELSE LET W1 == resetRoomTimeout(W, cur)
         IN  [W1 EXCEPT !.out = @ \o Broadcast(W1, cur, {s},
                 [Packet("game-state", Null, s) EXCEPT !.state = state])]

handleRequestState(W, s, cur, allowed) ==
    IF ~allowed THEN W
    ELSE LET W1 == resetRoomTimeout(W, cur)
         IN  [W1 EXCEPT !.out = @ \o Broadcast(W1, cur, {s},
                 [Packet("state-requested", Null, s) EXCEPT !.requesterId = s])]

\* handleSendState reads `data.targetId` once the rate limit has passed and
\* the current room exists: a TypeError when `data` is undefined.
handleSendStateThrows(W, cur, data, allowed) ==
    allowed /\ W.rooms[cur] # <<>> /\ data = NoPayload

handleSendState(W, s, cur, targetId, state, allowed) ==
    IF ~allowed THEN W
    ELSE IF W.rooms[cur] = <<>> \/ targetId \notin SeqToSet(W.rooms[cur]) THEN W
    ELSE IF ~validateGameStateSize(state) THEN W
    ELSE LET W1 == resetRoomTimeout(W, cur)
         IN  [W1 EXCEPT !.out = @ \o Broadcast(W1, targetId, {},
                 [Packet("game-state", Null, s) EXCEPT !.state = state])]

(***************************************************************************)
(* The state machine.                                                      *)
(***************************************************************************)
World ==
    [ rooms |-> rooms, roomTimeouts |-> roomTimeouts, timers |-> timers,
      sockets |-> sockets,
      connectionCounts |-> connectionCounts, out |-> <<>>, scheduled |-> {} ]

Commit(W) ==
    /\ rooms' = W.rooms
    /\ roomTimeouts' = W.roomTimeouts
    /\ timers' = W.timers
    /\ sockets' = W.sockets
    /\ connectionCounts' = W.connectionCounts

\* What `last` records of a step: the operation; the socket (or, for a timer,
\* the room) it was about; for a resumed handler the arguments it was called
\* with (room: its currentRoom; name: the room name or the target id); whether
\* the step was admitted; the packets it emitted and the rooms it scheduled a
\* timer for.
Step(op, id, room, name, state, allowed, W) ==
    [ op |-> op, id |-> id, room |-> room, name |-> name, state |-> state,
      allowed |-> allowed, out |-> W.out, scheduled |-> W.scheduled ]

Quiet == [ out |-> <<>>, scheduled |-> {} ]

\* A handler suspended at `await checkXxxLimit(socket.id)`: its arguments (the
\* current room is passed by value) and the result the check resolves to.
Suspended(kind, cur, name, state, allowed) ==
    [ kind |-> kind, room |-> cur, name |-> name, state |-> state,
      allowed |-> allowed, callback |-> TRUE ]

NoAdmits == [ i \in 1..RATE_DURATION |-> 0 ]

Init ==
    /\ sockets = {}
    /\ socketIp = [ s \in SocketIds |-> NoIp ]
    /\ connectionCounts = [ ip \in Addresses |-> NoEntry ]
    /\ rooms = [ r \in RoomKeys |-> <<>> ]
    /\ currentRoom = [ s \in SocketIds |-> Null ]
    /\ pending = [ s \in SocketIds |-> <<>> ]
    /\ roomTimeouts = [ r \in RoomKeys |-> NoTimer ]
    /\ timers = {}
    /\ limiter = [ k \in Kinds |-> [ s \in SocketIds |-> NoRecord ] ]
    /\ admitted = [ k \in Kinds |-> [ s \in SocketIds |-> NoAdmits ] ]
    /\ last = Step("init", Null, Null, Null, NoBlob, TRUE, Quiet)

\* The io.use middleware and, when it admits the handshake, the 'connection'
\* listeners (index.ts, GameRoomManager.handleConnection).
ConnectionAttempt(s, ip) ==
    /\ s \notin sockets
    /\ socketIp[s] = NoIp
    /\ connectionCounts' = trackConnection(connectionCounts, ip)
    /\ IF trackConnectionAllowed(connectionCounts, ip)
       THEN /\ socketIp' = [socketIp EXCEPT ![s] = ip]
            /\ sockets' = sockets \cup {s}
            /\ rooms' = [rooms EXCEPT ![s] = SetAdd(@, s)]
            /\ last' = Step("connection", s, Null, ip, NoBlob, TRUE, Quiet)
       ELSE /\ UNCHANGED << socketIp, sockets, rooms >>
            /\ last' = Step("connection", s, Null, ip, NoBlob, FALSE, Quiet)
    /\ UNCHANGED << currentRoom, pending, roomTimeouts, timers, limiter, admitted >>

\* A rate-limit check made by a handler: the point is consumed when the check
\* is called; the handler resumes later with the result.
CanConsume(kind, s) ==
    \/ limiter[kind][s].ttl = 0
    \/ limiter[kind][s].consumed < RATE_LIMITS[kind].points + MaxOverdraw

Consume(kind, s) ==
    /\ limiter' = consume(limiter, kind, s)
    /\ admitted' = IF checkLimit(limiter, kind, s)
                   THEN [admitted EXCEPT ![kind][s][1] = @ + 1]
                   ELSE admitted

RECURSIVE SumLen(_, _)
SumLen(f, S) ==
    IF S = {} THEN 0
    ELSE LET x == CHOOSE y \in S : TRUE
         IN  Len(f[x]) + SumLen(f, S \ {x})

InFlight == SumLen(pending, SocketIds)

Suspend(s, kind, name, state) ==
    /\ CanConsume(kind, s)
    /\ Consume(kind, s)
    /\ pending' = [pending EXCEPT ![s] = Append(@,
           Suspended(kind, currentRoom[s], name, state, checkLimit(limiter, kind, s)))]

\* An array a client sends is a new object for the server: no timer entry,
\* current room or suspended handler refers to it yet.
Unreferenced(v) ==
    /\ roomTimeouts[v] = NoTimer
    /\ \A s \in SocketIds :
          /\ currentRoom[s] # v
          /\ \A i \in 1..Len(pending[s]) :
                pending[s][i].name # v /\ pending[s][i].room # v

\* JOIN_ROOM listener up to the await in handleJoinRoom
JoinRoomEvent(s, roomName) ==
    /\ s \in sockets
    /\ IsArray(roomName) => Unreferenced(roomName)
    /\ Suspend(s, "JOIN_ROOM", roomName, NoBlob)
    /\ last' = Step("join-room", s, Null, Null, NoBlob,
                    checkLimit(limiter, "JOIN_ROOM", s), Quiet)
    /\ UNCHANGED << sockets, socketIp, connectionCounts, rooms, currentRoom,
                    roomTimeouts, timers >>

\* handleJoinRoom after the await, and the listener's assignment to currentRoom
JoinRoomResume(s) ==
    /\ pending[s] # <<>>
    /\ Head(pending[s]).kind = "JOIN_ROOM"
    /\ Head(pending[s]).callback
    /\ LET h == Head(pending[s])
           r == handleJoinRoom(World, s, h.name, h.room, h.allowed)
       IN  /\ Commit(r.W)
           /\ currentRoom' = [currentRoom EXCEPT ![s] = r.ret]
           /\ last' = Step("join-room-done", s, h.room, h.name, NoBlob,
                           h.allowed, r.W)
    /\ pending' = [pending EXCEPT ![s] = Tail(@)]
    /\ UNCHANGED << socketIp, limiter, admitted >>

\* JOIN_ROOM listener up to the await, for an event emitted without an
\* acknowledgment function.
JoinRoomEventWithoutCallback(s, roomName) ==
    /\ s \in sockets
    /\ IsArray(roomName) => Unreferenced(roomName)
    /\ CanConsume("JOIN_ROOM", s)
    /\ Consume("JOIN_ROOM", s)
    /\ pending' = [pending EXCEPT ![s] = Append(@,
           [Suspended("JOIN_ROOM", currentRoom[s], roomName, NoBlob,
                      checkLimit(limiter, "JOIN_ROOM", s))
               EXCEPT !.callback = FALSE])]
    /\ last' = Step("join-room", s, Null, Null, NoBlob,
                    checkLimit(limiter, "JOIN_ROOM", s), Quiet)
    /\ UNCHANGED << sockets, socketIp, connectionCounts, rooms, currentRoom,
                    roomTimeouts, timers >>

\* handleJoinRoom after the await when there is no acknowledgment function:
\* the promise rejects, so the listener's assignment to currentRoom never runs
\* and the rejection is handled by nobody.
JoinRoomThrows(s) ==
    /\ pending[s] # <<>>
    /\ Head(pending[s]).kind = "JOIN_ROOM"
    /\ ~Head(pending[s]).callback
    /\ LET h == Head(pending[s])
           W == handleJoinRoomWithoutCallback(World, s, h.name, h.room, h.allowed)
       IN  /\ Commit(W)
           /\ last' = Step("join-room-threw", s, h.room, h.name, NoBlob,
                           h.allowed, W)
    /\ pending' = [pending EXCEPT ![s] = Tail(@)]
    /\ UNCHANGED << socketIp, currentRoom, limiter, admitted >>

\* LEAVE_ROOM listener (synchronous)
LeaveRoomEvent(s) ==
    /\ s \in sockets
    /\ LET W == handleLeaveRoom(World, s, currentRoom[s])
       IN  /\ Commit(W)
           /\ last' = Step("leave-room", s, currentRoom[s], Null, NoBlob, TRUE, W)
    /\ currentRoom' = [currentRoom EXCEPT ![s] = Null]
    /\ UNCHANGED << socketIp, pending, limiter, admitted >>

\* A relay listener up to its await: it returns at once when the socket has no
\* current room, before any rate-limit check.
\* A relay listener whose handler makes its rate-limit check before it looks
\* at the current room
RelayEventChecksLimitFirst(s, kind, op, name, state) ==
    /\ s \in sockets
    /\ CanConsume(kind, s)
    /\ Consume(kind, s)
    /\ pending' = [pending EXCEPT ![s] = Append(@,
           Suspended(kind, currentRoom[s], name, state,
                     currentRoom[s] # Null /\ checkLimit(limiter, kind, s)))]
    /\ last' = Step(op, s, Null, Null, NoBlob,
                    currentRoom[s] # Null /\ checkLimit(limiter, kind, s), Quiet)
    /\ UNCHANGED << sockets, socketIp, connectionCounts, rooms, currentRoom,
                    roomTimeouts, timers >>

RelayEvent(s, kind, op, name, state) ==
    /\ s \in sockets
    /\ IF currentRoom[s] = Null
       THEN /\ UNCHANGED << pending, limiter, admitted >>
            /\ last' = Step(op, s, Null, Null, NoBlob, FALSE, Quiet)
       ELSE /\ Suspend(s, kind, name, state)
            /\ last' = Step(op, s, Null, Null, NoBlob,
                            checkLimit(limiter, kind, s), Quiet)
    /\ UNCHANGED << sockets, socketIp, connectionCounts, rooms, currentRoom,
                    roomTimeouts, timers >>

GameStateEvent(s, state) == RelayEvent(s, "GAME_STATE", "game-state", Null, state)

RequestStateEvent(s) == RelayEvent(s, "REQUEST_STATE", "request-state", Null, NoBlob)

SendStateEvent(s, targetId, state) ==
    RelayEvent(s, "SEND_STATE", "send-state", targetId, state)

RelayResume(s, kind, op, W) ==
    /\ Commit(W)
    /\ last' = Step(op, s, Head(pending[s]).room, Head(pending[s]).name,
                    Head(pending[s]).state, Head(pending[s]).allowed, W)
    /\ pending' = [pending EXCEPT ![s] = Tail(@)]
    /\ UNCHANGED << socketIp, currentRoom, limiter, admitted >>

GameStateResume(s) ==
    /\ pending[s] # <<>>
    /\ Head(pending[s]).kind = "GAME_STATE"
    /\ LET h == Head(pending[s])
       IN  RelayResume(s, "GAME_STATE", "game-state-done",
                       handleGameState(World, s, h.room, h.state, h.allowed))

RequestStateResume(s) ==
    /\ pending[s] # <<>>
    /\ Head(pending[s]).kind = "REQUEST_STATE"
    /\ LET h == Head(pending[s])
       IN  RelayResume(s, "REQUEST_STATE", "request-state-done",
                       handleRequestState(World, s, h.room, h.allowed))

SendStateResume(s) ==
    /\ pending[s] # <<>>
    /\ Head(pending[s]).kind = "SEND_STATE"
    /\ LET h == Head(pending[s])
       IN  /\ ~handleSendStateThrows(World, h.room, h.name, h.allowed)
           /\ RelayResume(s, "SEND_STATE", "send-state-done",
                          handleSendState(World, s, h.room, h.name, h.state, h.allowed))

\* handleSendState after the await when the payload is missing: the promise
\* the listener dropped rejects, with no effect on the rooms.
SendStateThrows(s) ==
    /\ pending[s] # <<>>
    /\ Head(pending[s]).kind = "SEND_STATE"
    /\ LET h == Head(pending[s])
       IN  /\ handleSendStateThrows(World, h.room, h.name, h.allowed)
           /\ RelayResume(s, "SEND_STATE", "send-state-threw",
                          World)

\* The client closes the connection (or the transport drops).
Disconnect(s) ==
    /\ s \in sockets
    /\ LET W == onDisconnect(World, s, socketIp[s], currentRoom[s])
       IN  /\ Commit(W)
           /\ last' = Step("disconnect", s, currentRoom[s], Null, NoBlob, TRUE, W)
    /\ UNCHANGED << socketIp, currentRoom, pending, limiter, admitted >>

\* A pending timer set for roomName runs out and its callback runs.
RoomTimeoutFires(roomName) ==
    /\ Timeout(roomName, 0) \in timers
    /\ LET W == disconnectRoom(
                    [World EXCEPT !.timers = @ \ { Timeout(roomName, 0) }],
                    roomName, socketIp, currentRoom)
       IN  /\ Commit(W)
           /\ last' = Step("room-timeout", roomName, Null, Null, NoBlob, TRUE, W)
    /\ UNCHANGED << socketIp, currentRoom, pending, limiter, admitted >>

\* d ticks of time pass; no timer is overdue.
Tick(d) ==
    /\ \A t \in timers : t.left >= d
    /\ \/ \E r \in RoomKeys : roomTimeouts[r] # NoTimer
       \/ \E k \in Kinds, s \in SocketIds : limiter[k][s].ttl > 0
    /\ roomTimeouts' = [ r \in RoomKeys |->
           IF roomTimeouts[r] = NoTimer THEN NoTimer ELSE roomTimeouts[r] - d ]
    /\ timers' = { Timeout(t.roomName, t.left - d) : t \in timers }
    /\ limiter' = [ k \in Kinds |-> [ s \in SocketIds |->
           IF limiter[k][s].ttl > d
           THEN [limiter[k][s] EXCEPT !.ttl = @ - d]
           ELSE NoRecord ] ]
    /\ admitted' = [ k \in Kinds |-> [ s \in SocketIds |->
           [ i \in 1..RATE_DURATION |->
               IF i > d THEN admitted[k][s][i - d] ELSE 0 ] ] ]
    /\ last' = Step("tick", Null, Null, Null, NoBlob, TRUE, Quiet)
    /\ UNCHANGED << sockets, socketIp, connectionCounts, rooms, currentRoom, pending >>

(***************************************************************************)
(* Next-state relations.  The server's steps are the same in every         *)
(* specification; a specification bounds what the clients send: which      *)
(* connections are opened and from where, the room names, the blobs, the   *)
(* send-state targets, and how far the clock moves in one step.            *)
(***************************************************************************)
Connects(P) ==
    \E p \in P : ConnectionAttempt(p[1], p[2])

Joins(S, N, maxPending) ==
    \E s \in S, roomName \in N :
        InFlight < maxPending /\ JoinRoomEvent(s, roomName)

Leaves(S) ==
    \E s \in S : LeaveRoomEvent(s)

GameStates(S, B, maxPending) ==
    \E s \in S, state \in B :
        InFlight < maxPending /\ GameStateEvent(s, state)

RequestStates(S, maxPending) ==
    \E s \in S :
        InFlight < maxPending /\ RequestStateEvent(s)

SendStates(S, T, B, maxPending) ==
    \E s \in S, targetId \in T, state \in B :
        InFlight < maxPending /\ SendStateEvent(s, targetId, state)

JoinsWithoutCallback(S, N, maxPending) ==
    \E s \in S, roomName \in N :
        InFlight < maxPending /\ JoinRoomEventWithoutCallback(s, roomName)

Disconnects(S) ==
    \E s \in S : Disconnect(s)

Timers ==
    \E roomName \in RoomKeys : RoomTimeoutFires(roomName)

\* Timer callbacks and the passing of time between turns of the event loop:
\* a handler suspended at an in-memory limiter resumes in the same turn.
TimersBetweenTurns == InFlight = 0 /\ Timers

TickBetweenTurns(d) == InFlight = 0 /\ Tick(d)

\* A close of the transport is an event of a later turn; a disconnect packet
\* in a batch is processed before any listener of the batch is called, and the
\* events behind it are ignored.
DisconnectsBetweenTurns(S) == InFlight = 0 /\ Disconnects(S)

(***************************************************************************)
(* Spec: two connections from one address; room names good and bad, and    *)
(* the name that is the first connection's id; one handler suspended at a  *)
(* time; timers fire after a full inactivity timeout.                      *)
(***************************************************************************)
Next ==
    \/ Connects({Sid1, Sid2} \X {Ip1})
    \/ Joins({Sid1, Sid2}, {"lobby", Sid1} \cup BadRoomNames, MaxPendingRooms)
    \/ Leaves({Sid1, Sid2})
    \/ Disconnects({Sid1, Sid2})
    \/ \E s \in SocketIds : JoinRoomResume(s)
    \/ Timers
    \/ Tick(ROOM_INACTIVITY_TIMEOUT_MS)

Spec == Init /\ [][Next]_vars

(***************************************************************************)
(* SpecRace: three connections and one room; join requests of different    *)
(* connections are suspended at the same time.                             *)
(***************************************************************************)
NextRace ==
    \/ Connects({<<Sid1, Ip1>>, <<Sid2, Ip1>>, <<Sid3, Ip2>>})
    \/ Joins({Sid1, Sid2, Sid3}, {"lobby"}, MaxPending)
    \/ Leaves({Sid1, Sid2, Sid3})
    \/ Disconnects({Sid1, Sid2, Sid3})
    \/ \E s \in SocketIds : JoinRoomResume(s)

SpecRace == Init /\ [][NextRace]_vars

(***************************************************************************)
(* SpecArray: three connections and one room; the third connection also    *)
(* sends the room name as an array, and an empty name.                     *)
(***************************************************************************)
NextArray ==
    \/ Connects({<<Sid1, Ip1>>, <<Sid2, Ip1>>, <<Sid3, Ip2>>})
    \/ Joins({Sid1, Sid2}, {"lobby"}, MaxPendingRooms)
    \/ Joins({Sid3}, {"lobby", ""} \cup ArrayNames, MaxPendingRooms)
    \/ Leaves({Sid1, Sid2, Sid3})
    \/ \E s \in SocketIds : JoinRoomResume(s)

SpecArray == Init /\ [][NextArray]_vars

(***************************************************************************)
(* SpecOverlap: one connection and two rooms; two of its join requests are *)
(* suspended at the same time.                                             *)
(***************************************************************************)
NextOverlap ==
    \/ Connects({<<Sid1, Ip1>>})
    \/ Joins({Sid1}, GameRoomNames, MaxPending)
    \/ Leaves({Sid1})
    \/ Disconnects({Sid1})
    \/ \E s \in SocketIds : JoinRoomResume(s)
    \/ Timers
    \/ Tick(ROOM_INACTIVITY_TIMEOUT_MS)

SpecOverlap == Init /\ [][NextOverlap]_vars

(***************************************************************************)
(* SpecRelay: two connections that relay game-state, in a game room or in  *)
(* the room named by the first connection's id.                            *)
(***************************************************************************)
NextRelay ==
    \/ Connects({Sid1, Sid2} \X {Ip1})
    \/ Joins({Sid1, Sid2}, {"lobby", Sid1}, MaxPendingRooms)
    \/ Leaves({Sid1, Sid2})
    \/ GameStates({Sid1, Sid2}, {"x", "xyz"}, MaxPendingRooms)
    \/ \E s \in SocketIds : JoinRoomResume(s)
    \/ \E s \in SocketIds : GameStateResume(s)

SpecRelay == Init /\ [][NextRelay]_vars

(***************************************************************************)
(* SpecSend: two connections and two rooms; send-state to either id.       *)
(***************************************************************************)
NextSend ==
    \/ Connects({Sid1, Sid2} \X {Ip1})
    \/ Joins({Sid1, Sid2}, GameRoomNames, MaxPendingRooms)
    \/ Leaves({Sid1, Sid2})
    \/ SendStates({Sid1, Sid2}, {Sid1, Sid2}, {"x", "xyz"}, MaxPendingRooms)
    \/ \E s \in SocketIds : JoinRoomResume(s)
    \/ \E s \in SocketIds : SendStateResume(s)

SpecSend == Init /\ [][NextSend]_vars

(***************************************************************************)
(* SpecTimed: one connection; the clock moves one tick at a time, so that  *)
(* the limiter windows and the room timer are seen at every age.           *)
(***************************************************************************)
NextTimed ==
    \/ Connects({<<Sid1, Ip1>>})
    \/ Joins({Sid1}, {"lobby"}, MaxPendingRooms)
    \/ Leaves({Sid1})
    \/ GameStates({Sid1}, {"x"}, MaxPendingRooms)
    \/ \E s \in SocketIds : JoinRoomResume(s)
    \/ \E s \in SocketIds : GameStateResume(s)
    \/ Timers
    \/ Tick(1)

SpecTimed == Init /\ [][NextTimed]_vars

(***************************************************************************)
(* SpecConn: connection attempts from two addresses, more than the cap     *)
(* admits from the first; one room; closes by the client and evictions by  *)
(* the room timer.                                                         *)
(***************************************************************************)
NextConn ==
    \/ Connects((SocketIds \X {Ip1}) \cup {<<Sid4, Ip2>>})
    \/ Joins({Sid1, Sid2}, {"lobby"}, MaxPendingRooms)
    \/ Disconnects(SocketIds)
    \/ \E s \in SocketIds : JoinRoomResume(s)
    \/ Timers
    \/ Tick(ROOM_INACTIVITY_TIMEOUT_MS)

SpecConn == Init /\ [][NextConn]_vars

(***************************************************************************)
(* SpecOwner: a room whose first member leaves or disconnects, and a third *)
(* connection that joins it (by a string or by an array) and asks for the  *)
(* state.                                                                  *)
(***************************************************************************)
NextOwner ==
    \/ Connects({<<Sid1, Ip1>>, <<Sid2, Ip1>>, <<Sid3, Ip2>>})
    \/ Joins({Sid1, Sid2}, {"lobby"}, MaxPendingRooms)
    \/ Joins({Sid3}, {"lobby"} \cup ArrayNames, MaxPendingRooms)
    \/ Leaves({Sid1})
    \/ Disconnects({Sid1})
    \/ RequestStates({Sid3}, MaxPendingRooms)
    \/ \E s \in SocketIds : JoinRoomResume(s)
    \/ \E s \in SocketIds : RequestStateResume(s)

SpecOwner == Init /\ [][NextOwner]_vars

(***************************************************************************)
(* SpecCap: two connections and one room name more than MAX_TOTAL_ROOMS.   *)
(***************************************************************************)
NextCap ==
    \/ Connects({Sid1, Sid2} \X {Ip1})
    \/ Joins({Sid1, Sid2}, GameRoomNames \cup SpareRoomNames, MaxPendingRooms)
    \/ Leaves({Sid1, Sid2})
    \/ \E s \in SocketIds : JoinRoomResume(s)

SpecCap == Init /\ [][NextCap]_vars

(***************************************************************************)
(* SpecRooms: three connections and three room names, one of them the      *)
(* first connection's id, with MAX_TOTAL_ROOMS rooms allowed.              *)
(***************************************************************************)
NextRooms ==
    \/ Connects({<<Sid1, Ip1>>, <<Sid2, Ip1>>, <<Sid3, Ip2>>})
    \/ Joins({Sid1, Sid2, Sid3}, GameRoomNames \cup {Sid1}, MaxPendingRooms)
    \/ Leaves({Sid1, Sid2, Sid3})
    \/ \E s \in SocketIds : JoinRoomResume(s)

SpecRooms == Init /\ [][NextRooms]_vars

(***************************************************************************)
(* SpecBlob: two connections in one room; game states at, below and above  *)
(* MAX_GAME_STATE_SIZE, with and without characters outside ASCII.         *)
(***************************************************************************)
NextBlob ==
    \/ Connects({Sid1, Sid2} \X {Ip1})
    \/ Joins({Sid1, Sid2}, {"lobby"}, MaxPendingRooms)
    \/ GameStates({Sid1, Sid2}, {"x", "xy", "xyz"} \cup WideBlobs, MaxPendingRooms)
    \/ \E s \in SocketIds : JoinRoomResume(s)
    \/ \E s \in SocketIds : GameStateResume(s)

SpecBlob == Init /\ [][NextBlob]_vars

(***************************************************************************)
(* SpecAnswer: two connections, MAX_TOTAL_ROOMS + 1 good room names and an *)
(* invalid one, one join in flight at a time.  A handler suspended at its  *)
(* rate-limit check resumes: the limiter's promise is settled.             *)
(***************************************************************************)
NextAnswer ==
    \/ Connects({Sid1, Sid2} \X {Ip1})
    \/ Joins({Sid1, Sid2}, GameRoomNames \cup SpareRoomNames \cup {""},
             MaxPendingRooms)
    \/ Leaves({Sid1, Sid2})
    \/ \E s \in SocketIds : JoinRoomResume(s)

FairAnswer == WF_vars(\E s \in SocketIds : JoinRoomResume(s))

SpecAnswer == Init /\ [][NextAnswer]_vars /\ FairAnswer

(***************************************************************************)
(* SpecBudget: two connections from one address and one room; join-room   *)
(* and game-state events from both and request-state events from the       *)
(* first, more of each than its budget admits; the clock moves by whole    *)
(* windows.                                                                *)
(***************************************************************************)
NextBudget ==
    \/ Connects({Sid1, Sid2} \X {Ip1})
    \/ Joins({Sid1, Sid2}, {"lobby"}, MaxPendingRooms)
    \/ GameStates({Sid1, Sid2}, {"x"}, MaxPendingRooms)
    \/ RequestStates({Sid1}, MaxPendingRooms)
    \/ \E s \in SocketIds : JoinRoomResume(s)
    \/ \E s \in SocketIds : GameStateResume(s)
    \/ \E s \in SocketIds : RequestStateResume(s)
    \/ TickBetweenTurns(RATE_DURATION)

SpecBudget == Init /\ [][NextBudget]_vars

(***************************************************************************)
(* SpecClose: two connections and two rooms, up to MaxPending joins of a   *)
(* batch suspended together; connections close, timers fire and the clock  *)
(* advances between turns.                                                 *)
(***************************************************************************)
NextClose ==
    \/ Connects({Sid1, Sid2} \X {Ip1})
    \/ Joins({Sid1, Sid2}, GameRoomNames, MaxPending)
    \/ Leaves({Sid1, Sid2})
    \/ DisconnectsBetweenTurns({Sid1, Sid2})
    \/ \E s \in SocketIds : JoinRoomResume(s)
    \/ TimersBetweenTurns
    \/ TickBetweenTurns(ROOM_INACTIVITY_TIMEOUT_MS)

SpecClose == Init /\ [][NextClose]_vars

(***************************************************************************)
(* SpecTarget: two connections; a game room and the room named by the      *)
(* first connection's id; send-state to either id.                         *)
(***************************************************************************)
NextTarget ==
    \/ Connects({Sid1, Sid2} \X {Ip1})
    \/ Joins({Sid1, Sid2}, {"lobby", Sid1}, MaxPendingRooms)
    \/ Leaves({Sid1, Sid2})
    \/ SendStates({Sid1, Sid2}, {Sid1, Sid2}, {"x", "xyz"}, MaxPendingRooms)
    \/ \E s \in SocketIds : JoinRoomResume(s)
    \/ \E s \in SocketIds : SendStateResume(s)

SpecTarget == Init /\ [][NextTarget]_vars

(***************************************************************************)
(* SpecAsk: two connections and two rooms; the first asks for the state,   *)
(* and up to MaxPending events of one batch of it are suspended together.  *)
(* Events of different connections arrive in different turns.              *)
(***************************************************************************)
NextAsk ==
    \/ Connects({Sid1, Sid2} \X {Ip1})
    \/ (pending[Sid2] = <<>> /\ Joins({Sid1}, GameRoomNames, MaxPending))
    \/ Joins({Sid2}, {"lobby"}, MaxPendingRooms)
    \/ (pending[Sid2] = <<>> /\ Leaves({Sid1}))
    \/ (pending[Sid2] = <<>> /\ RequestStates({Sid1}, MaxPending))
    \/ \E s \in SocketIds : JoinRoomResume(s)
    \/ \E s \in SocketIds : RequestStateResume(s)

SpecAsk == Init /\ [][NextAsk]_vars

(***************************************************************************)
(* SpecStale: two connections and one room, each joining it by a string or *)
(* by an array, with one handler in flight at a time; connections close,   *)
(* time passes and timers fire between turns.                              *)
(***************************************************************************)
NextStale ==
    \/ Connects({<<Sid1, Ip1>>, <<Sid3, Ip2>>})
    \/ Joins({Sid1, Sid3}, {"lobby"} \cup ArrayNames, MaxPendingRooms)
    \/ (InFlight = 0 /\ Leaves({Sid1, Sid3}))
    \/ DisconnectsBetweenTurns({Sid1, Sid3})
    \/ \E s \in SocketIds : JoinRoomResume(s)
    \/ TimersBetweenTurns
    \/ TickBetweenTurns(1)

SpecStale == Init /\ [][NextStale]_vars

(***************************************************************************)
(* SpecOrder: two connections and MAX_TOTAL_ROOMS + 1 room names; the      *)
(* second joins by good names and an invalid one, whether the room is      *)
(* full, the server at capacity or its budget spent, and sends relay       *)
(* events in and out of a room.  One handler is in flight at a time; the   *)
(* clock moves by whole windows.                                           *)
(***************************************************************************)
NextOrder ==
    \/ Connects({Sid1, Sid2} \X {Ip1})
    \/ Joins({Sid1}, {"lobby", "room-2"}, MaxPendingRooms)
    \/ Joins({Sid2}, {"lobby", "room-3", ""}, MaxPendingRooms)
    \/ GameStates({Sid2}, {"x"}, MaxPendingRooms)
    \/ RequestStates({Sid2}, MaxPendingRooms)
    \/ SendStates({Sid2}, {Sid1}, {"x"}, MaxPendingRooms)
    \/ \E s \in SocketIds : JoinRoomResume(s)
    \/ \E s \in SocketIds : GameStateResume(s)
    \/ \E s \in SocketIds : RequestStateResume(s)
    \/ \E s \in SocketIds : SendStateResume(s)
    \/ TickBetweenTurns(RATE_DURATION)

SpecOrder == Init /\ [][NextOrder]_vars

(***************************************************************************)
(* SpecMalformed: two connections and one room; the first sends join-room  *)
(* with and without an acknowledgment function, send-state with and        *)
(* without a payload, and states that JSON.stringify rejects.  One handler *)
(* is suspended at a time.                                                 *)
(***************************************************************************)
NextMalformed ==
    \/ Connects({Sid1, Sid2} \X {Ip1})
    \/ Joins({Sid1, Sid2}, {"lobby"}, MaxPendingRooms)
    \/ JoinsWithoutCallback({Sid1}, {"lobby", ""}, MaxPendingRooms)
    \/ Leaves({Sid1})
    \/ GameStates({Sid1}, {"x", Undefined, Cyclic}, MaxPendingRooms)
    \/ SendStates({Sid1}, {Sid2, NoPayload}, {"x"}, MaxPendingRooms)
    \/ \E s \in SocketIds : JoinRoomResume(s)
    \/ \E s \in SocketIds : JoinRoomThrows(s)
    \/ \E s \in SocketIds : GameStateResume(s)
    \/ \E s \in SocketIds : SendStateResume(s)
    \/ \E s \in SocketIds : SendStateThrows(s)

SpecMalformed == Init /\ [][NextMalformed]_vars

(***************************************************************************)
(* SpecEvict: one connection and one room, joined by a string or by an     *)
(* array; time passes in single ticks.  The limiters are in-memory: the    *)
(* promise of consume is settled in the turn in which it is called, so a   *)
(* suspended handler resumes before any timer callback runs, and the clock *)
(* advances and timers fire only while no handler is suspended.  The       *)
(* server's own steps are fair: a suspended handler resumes, the clock     *)
(* advances, a timer that is due fires.  Nothing is assumed of the client. *)
(***************************************************************************)
NextEvict ==
    \/ Connects({<<Sid3, Ip2>>})
    \/ Joins({Sid3}, {"lobby"} \cup ArrayNames, MaxPendingRooms)
    \/ Leaves({Sid3})
    \/ GameStates({Sid3}, {"x"}, MaxPendingRooms)
    \/ \E s \in SocketIds : JoinRoomResume(s)
    \/ \E s \in SocketIds : GameStateResume(s)
    \/ TimersBetweenTurns
    \/ TickBetweenTurns(1)

FairEvict ==
    /\ WF_vars(\E s \in SocketIds : JoinRoomResume(s))
    /\ WF_vars(\E s \in SocketIds : GameStateResume(s))
    /\ WF_vars(TimersBetweenTurns)
    /\ WF_vars(TickBetweenTurns(1))

SpecEvict == Init /\ [][NextEvict]_vars /\ FairEvict

(***************************************************************************)
(* Properties.                                                             *)
(***************************************************************************)
Members(r) == SeqToSet(rooms[r])

\* the rooms, other than the one named by its own id, that s is a member of
GameRoomsOf(s) == { r \in RoomKeys : r # s /\ s \in Members(r) }

\* the open connections that were admitted from ip
OpenFrom(ip) == { s \in sockets : socketIp[s] = ip }

\* the connections that were admitted and have closed
Closed == { s \in SocketIds : socketIp[s] # NoIp /\ s \notin sockets }

RECURSIVE SumSeq(_)
SumSeq(q) == IF q = <<>> THEN 0 ELSE Head(q) + SumSeq(Tail(q))

\* the check calls of `kind` by s that were admitted during the last
\* RATE_DURATION ticks, the current one included
AdmittedInWindow(kind, s) == SumSeq(admitted[kind][s])

\* the acknowledgement a join-room handler ended with
LastAck == last.out[Len(last.out)]

\* C1: a room never has more than MAX_PLAYERS_PER_ROOM members, whatever
\* join requests arrive and however they interleave.
C1_RoomNeverExceedsCapacity ==
    \A r \in RoomKeys :
        /\ Len(rooms[r]) <= MAX_PLAYERS_PER_ROOM
        /\ Cardinality(Members(r)) <= MAX_PLAYERS_PER_ROOM

\* C2: a send-state whose target is not, when the handler checks membership,
\* a member of the sender's current room (or whose sender has no current
\* room then) delivers nothing and resets no room timer.  (The handler
\* changes neither rooms nor currentRoom, so both are as they were at the
\* check.)
C2_NonMemberTargetDropped ==
    (/\ last.op = "send-state-done"
     /\ \/ currentRoom[last.id] = Null
        \/ last.name \notin Members(currentRoom[last.id]))
        => (last.out = <<>> /\ last.scheduled = {})

\* C3: every relayed payload (game-state, state-requested) reaches only
\* connections whose current room has the sender as a member at the moment
\* of the relay.
C3_RoomIsolation ==
    \A i \in 1..Len(last.out) :
        last.out[i].event \in {"game-state", "state-requested"} =>
            /\ currentRoom[last.out[i].to] # Null
            /\ last.out[i].from \in Members(currentRoom[last.out[i].to])

\* C4: the events of one connection are handled one at a time: a connection
\* has at most one handler that has started and not finished, and the current
\* room that handler was called with is still the connection's current room.
C4_OneHandlerAtATime ==
    \A s \in SocketIds :
        /\ Len(pending[s]) <= 1
        /\ pending[s] # <<>> => Head(pending[s]).room = currentRoom[s]

\* C5: once every handler has finished, a connection is a member of at most
\* one game room.
C5_AtMostOneGameRoom ==
    (\A s \in SocketIds : pending[s] = <<>>)
        => \A s \in SocketIds : Cardinality(GameRoomsOf(s)) <= 1

\* C6: for every limiter and every connection, the checks admitted within
\* any RATE_DURATION ticks are at most the limiter's points.
C6_AdmitsPerWindow ==
    \A k \in Kinds, s \in SocketIds :
        AdmittedInWindow(k, s) <= RATE_LIMITS[k].points

\* C7: a join-room attempt that follows JOIN_ROOM_POINTS admitted attempts
\* made within the last RATE_DURATION ticks is not admitted; a rejected
\* attempt is answered with success = false and the rate-limit reason and
\* changes no room's membership or timer; an attempt with no admitted
\* attempt in the last RATE_DURATION ticks is admitted.
C7_JoinRejectedAfterPoints ==
    [][ /\ (/\ last'.op = "join-room"
            /\ AdmittedInWindow("JOIN_ROOM", last'.id) >= JOIN_ROOM_POINTS)
              => ~last'.allowed
        /\ (/\ last'.op = "join-room"
            /\ AdmittedInWindow("JOIN_ROOM", last'.id) = 0)
              => last'.allowed
        /\ (last'.op = "join-room-done" /\ ~last'.allowed)
              => /\ last'.out = << JoinAck(last'.id, FALSE,
                        "Too many requests. Please slow down.", FALSE, 0) >>
                 /\ rooms' = rooms
                 /\ roomTimeouts' = roomTimeouts
      ]_vars

\* C8: an address never has more than MAX_CONNECTIONS_PER_IP open
\* connections; an attempt is rejected exactly when the address is at the
\* cap; a rejected attempt changes no counter (the count still equals the
\* open connections) and its socket reaches no room handler.
C8_ConnectionCap ==
    /\ \A ip \in Addresses :
          /\ CountOf(connectionCounts, ip) <= MAX_CONNECTIONS_PER_IP
          /\ Cardinality(OpenFrom(ip)) <= MAX_CONNECTIONS_PER_IP
    /\ (last.op = "connection" /\ last.allowed)
          => /\ last.id \in OpenFrom(last.name)
             /\ CountOf(connectionCounts, last.name) = Cardinality(OpenFrom(last.name))
    /\ (last.op = "connection" /\ ~last.allowed)
          => /\ Cardinality(OpenFrom(last.name)) = MAX_CONNECTIONS_PER_IP
             /\ CountOf(connectionCounts, last.name) = MAX_CONNECTIONS_PER_IP
             /\ last.id \notin sockets
             /\ socketIp[last.id] = NoIp
             /\ pending[last.id] = <<>>
             /\ currentRoom[last.id] = Null
             /\ \A r \in RoomKeys : last.id \notin Members(r)

\* At the cap a connection closed, one further attempt was admitted, and the
\* attempt after it was rejected.
C8_RejectedAgainAfterClose ==
    /\ last.op = "connection"
    /\ ~last.allowed
    /\ last.name = Ip1
    /\ \E c \in Closed : socketIp[c] = Ip1
    /\ Cardinality(OpenFrom(Ip1)) = MAX_CONNECTIONS_PER_IP
    /\ Cardinality({ s \in SocketIds : socketIp[s] = Ip1 })
          = MAX_CONNECTIONS_PER_IP + 1

AcceptableName(n) ==
    /\ Len(n) >= 1
    /\ Len(n) <= 20
    /\ \A i \in 1..Len(n) : SubSeq(n, i, i) \in RoomNameChars

\* C10: a join that passed the rate limit succeeds only with an acceptable
\* name; with any other name it is answered with success = false and leaves
\* every room's membership, every room's timer and the connection's current
\* room unchanged.
C10_NameValidation ==
    [][ (last'.op = "join-room-done" /\ last'.allowed) =>
          LET ack == last'.out[Len(last'.out)]
          IN  /\ ack.success => AcceptableName(last'.name)
              /\ ~AcceptableName(last'.name) =>
                    /\ ~ack.success
                    /\ rooms' = rooms
                    /\ roomTimeouts' = roomTimeouts
                    /\ currentRoom'[last'.id] = currentRoom[last'.id]
      ]_vars

\* ---------------------------------------------------------------------------
\* C11: a successful join to a room that had no member replies isRoomOwner =
\* true and playerCount = 1, and a successful join to a room that had exactly
\* one member replies isRoomOwner = false and playerCount = 2. The room is the
\* one the connection is added to; its members are those of the state the
\* handler resumed in.
C11_JoinReply ==
    [][ (last'.op = "join-room-done" /\ LastAck'.success) =>
            LET n == Len(rooms[RoomOf(last'.name)])
            IN  /\ n = 0 => (LastAck'.isRoomOwner /\ LastAck'.playerCount = 1)
                /\ n = 1 => (~LastAck'.isRoomOwner /\ LastAck'.playerCount = 2)
      ]_vars

\* ---------------------------------------------------------------------------
\* C12: the member that remains in a room after its first member left or
\* disconnected acts as the owner. A connection that joins a room whose only
\* member is another connection is told isRoomOwner = false and playerCount =
\* 2, and an admitted request-state of a connection is delivered as
\* state-requested, with its id as requesterId, to every other connected member
\* of its current room.
StateRequestedTo(m, x, s) ==
    m.event = "state-requested" /\ m.to = x /\ m.requesterId = s

C12_RemainingMemberActsAsOwner ==
    [][ /\ ( /\ last'.op = "join-room-done"
             /\ LastAck'.success
             /\ Len(rooms[RoomOf(last'.name)]) = 1
             /\ last'.id \notin Members(RoomOf(last'.name)) )
           => (~LastAck'.isRoomOwner /\ LastAck'.playerCount = 2)
        /\ ( /\ last'.op = "request-state-done"
             /\ last'.allowed
             /\ currentRoom[last'.id] # Null )
           => \A x \in (Members(RoomOf(currentRoom[last'.id])) \cap sockets)
                        \ {last'.id} :
                 \E i \in 1..Len(last'.out) :
                     StateRequestedTo(last'.out[i], x, last'.id)
      ]_vars

\* ---------------------------------------------------------------------------
\* C13: a leave-room of a connection that has no current room is answered with
\* success = true and nothing else is sent; no room's membership and no room's
\* timer changes, and the connection still has no current room. After any
\* leave-room the connection has no current room, so a second leave-room in a
\* row changes nothing the first one left.
C13_LeaveWithoutRoom ==
    [][ /\ (last'.op = "leave-room" /\ currentRoom[last'.id] = Null)
           => /\ last'.out = << LeaveAck(last'.id) >>
              /\ last'.scheduled = {}
              /\ rooms' = rooms
              /\ roomTimeouts' = roomTimeouts
              /\ currentRoom' = currentRoom
        /\ last'.op = "leave-room" => currentRoom'[last'.id] = Null
        /\ (last.op = "leave-room" /\ last'.op = "leave-room"
              /\ last'.id = last.id)
           => /\ rooms' = rooms
              /\ roomTimeouts' = roomTimeouts
              /\ currentRoom' = currentRoom
      ]_vars

\* A leave-room of a connection without a current room, while some room has
\* members and a running timer.
C13_LeftWithoutRoom ==
    /\ last.op = "leave-room"
    /\ last.room = Null
    /\ \E r \in GameRoomNames : Members(r) # {} /\ roomTimeouts[r] > 0

\* ---------------------------------------------------------------------------
\* C14: when the total room count (the number of timer entries) has reached
\* MAX_TOTAL_ROOMS, an admitted join with an acceptable name of a room without
\* members is answered with the capacity error and changes no room and no
\* timer, while an admitted join to a room with exactly one member succeeds
\* and adds the connection to that room.
TimerEntries == { r \in RoomKeys : roomTimeouts[r] # NoTimer }

C14_CapacityRejectsNewRoomsOnly ==
    [][ ( /\ last'.op = "join-room-done"
          /\ last'.allowed
          /\ AcceptableName(last'.name)
          /\ Cardinality(TimerEntries) >= MAX_TOTAL_ROOMS )
        => /\ Len(rooms[last'.name]) = 0 =>
                /\ ~LastAck'.success
                /\ LastAck'.error = "Server is at capacity. Please try again later."
                /\ Len(last'.out) = 1
                /\ rooms' = rooms
                /\ roomTimeouts' = roomTimeouts
           /\ Len(rooms[last'.name]) = 1 =>
                /\ LastAck'.success
                /\ last'.id \in SeqToSet(rooms'[last'.name])
      ]_vars

\* With the count at capacity, a connection was let into an existing room as
\* its second member; the room it came from was removed by that join, which
\* brought the count one below capacity.
C14_JoinedExistingRoomAtCapacity ==
    /\ last.op = "join-room-done"
    /\ LastAck.success
    /\ LastAck.playerCount = 2
    /\ last.room \in (GameRoomNames \cup SpareRoomNames) \ {last.name}
    /\ roomTimeouts[last.room] = NoTimer
    /\ Cardinality(TimerEntries) = MAX_TOTAL_ROOMS - 1

\* ---------------------------------------------------------------------------
\* C15: in every reachable state at most MAX_TOTAL_ROOMS rooms have a member.
\* The room that Socket.IO keeps for each connection under its own id is not
\* counted while it holds nobody but that connection.
OccupiedRooms == { r \in RoomKeys : Members(r) \ {r} # {} }

C15_RoomCountBounded == Cardinality(OccupiedRooms) <= MAX_TOTAL_ROOMS

\* ---------------------------------------------------------------------------
\* C16: a game state whose serialization is at most MAX_GAME_STATE_SIZE bytes
\* long is accepted by the payload check (the room's timer is reset and the
\* state is relayed), and one whose serialization is longer, by one byte or
\* more, is rejected: nothing is relayed and no timer is reset. The bytes are
\* those of the UTF-8 form of JSON.stringify(state), in which a character
\* outside ASCII takes more than one byte.
RECURSIVE Utf8Length(_)
Utf8Length(str) ==
    IF str = "" THEN 0
    ELSE (IF SubSeq(str, 1, 1) \in WideChars THEN 2 ELSE 1)
         + Utf8Length(SubSeq(str, 2, Len(str)))

SerializedBytes(state) == Utf8Length(state) + 2

C16_PayloadLimitInBytes ==
    ( /\ last.op = "game-state-done"
      /\ last.allowed
      /\ ~JsonStringifyThrows(last.state) )
    => /\ SerializedBytes(last.state) <= MAX_GAME_STATE_SIZE
            => last.scheduled # {}
       /\ SerializedBytes(last.state) > MAX_GAME_STATE_SIZE
            => (last.out = <<>> /\ last.scheduled = {})

\* ---------------------------------------------------------------------------
\* C17: a room that has a member and for which no join, game-state,
\* request-state or send-state is accepted any more is eventually evicted: it
\* has no member left and no timer entry. From every state in which the room
\* has a member, a state follows in which the room is gone or in which an
\* action has just been accepted.
RoomGone(r) == Members(r) = {} /\ roomTimeouts[r] = NoTimer

ActionAccepted ==
    /\ last.op \in { "join-room-done", "game-state-done",
                      "request-state-done", "send-state-done" }
    /\ last.scheduled # {}

C17_IdleRoomEvicted ==
    \A r \in GameRoomNames :
        (Members(r) # {}) ~> (RoomGone(r) \/ ActionAccepted)

\* ---------------------------------------------------------------------------
\* C18: every accepted join, game-state, request-state or send-state for a
\* room leaves that room with a deadline a full ROOM_INACTIVITY_TIMEOUT_MS
\* away, and a room that has members is evicted only when no action for it was
\* accepted during the last ROOM_INACTIVITY_TIMEOUT_MS. The room of a join is
\* the one the connection is added to; the room of a relayed event is the one
\* whose members the event is relayed to. A timer that was set less than
\* ROOM_INACTIVITY_TIMEOUT_MS ago still has time left.
ActedRoom(step) ==
    RoomOf(IF step.op = "join-room-done" THEN step.name ELSE step.room)

C18_AcceptedActionPostponesEviction ==
    [][ /\ ActionAccepted' => roomTimeouts'[ActedRoom(last')] = ROOM_INACTIVITY_TIMEOUT_MS
        /\ (last'.op = "room-timeout" /\ rooms[last'.id] # <<>>)
           => \A k \in RoomKeys :
                 RoomOf(k) = last'.id => roomTimeouts[k] \in {NoTimer, 0}
      ]_vars

\* ---------------------------------------------------------------------------
\* C19: a join that is rejected, for whatever reason, changes no state: when
\* its handler has completed, every connection's current room, every room's
\* membership and every room's timer are what they were just before, whatever
\* other events of the connection were handled while it was suspended. Its
\* only effect is the reply.
C19_RejectedJoinChangesNothing ==
    [][ (last'.op = "join-room-done" /\ ~LastAck'.success)
        => /\ currentRoom' = currentRoom
           /\ rooms' = rooms
           /\ roomTimeouts' = roomTimeouts
           /\ Len(last'.out) = 1
      ]_vars

\* ---------------------------------------------------------------------------
\* C20: a game-state, request-state or send-state event that fails a
\* precondition sends no message to anyone and resets no timer. The
\* preconditions: the sender has a current room; the rate limit admits the
\* event; the payload can be serialized and its serialization is at most
\* MAX_GAME_STATE_SIZE bytes long; the target of a send-state is a member of
\* the sender's room.
RelayPreconditionFails ==
    \/ currentRoom[last.id] = Null
    \/ ~last.allowed
    \/ /\ last.op \in { "game-state-done", "send-state-done" }
       /\ \/ JsonStringifyThrows(last.state)
          \/ SerializedBytes(last.state) > MAX_GAME_STATE_SIZE
    \/ /\ last.op = "send-state-done"
       /\ last.name \notin Members(RoomOf(currentRoom[last.id]))

C20_FailedRelayHasNoEffect ==
    /\ ( /\ last.op \in { "game-state-done", "request-state-done",
                           "send-state-done" }
         /\ RelayPreconditionFails )
       => (last.out = <<>> /\ last.scheduled = {})
    /\ ( /\ last.op \in { "game-state", "request-state", "send-state" }
         /\ currentRoom[last.id] = Null )
       => (last.out = <<>> /\ last.scheduled = {} /\ pending[last.id] = <<>>)

\* ---------------------------------------------------------------------------
\* C21: when a connection that is a member of a game room disconnects (no
\* handler of it being suspended), it is a member of no room afterwards, every
\* other connected member of that room is sent player-left, the room has no
\* timer entry left if it became empty, and the count of the connection's
\* address is one less.
PlayerLeftTo(m, x, s) == m.event = "player-left" /\ m.to = x /\ m.from = s

C21_DisconnectLeavesRoom ==
    [][ (last'.op = "disconnect" /\ pending[last'.id] = <<>>)
        => LET s == last'.id
           IN  /\ \A r \in RoomKeys : s \notin SeqToSet(rooms'[r])
               /\ CountOf(connectionCounts', socketIp[s])
                     = CountOf(connectionCounts, socketIp[s]) - 1
               /\ \A r \in GameRoomsOf(s) :
                     /\ \A x \in (Members(r) \cap sockets) \ {s} :
                           \E i \in 1..Len(last'.out) :
                               PlayerLeftTo(last'.out[i], x, s)
                     /\ rooms'[r] = <<>> => roomTimeouts'[r] = NoTimer
      ]_vars

\* ---------------------------------------------------------------------------
\* C22: when the timer of a room fires and the room has no member any more,
\* the callback sends nothing and disconnects nobody; all it does is remove
\* the timer entry of that room name.
C22_TimerOfVanishedRoom ==
    [][ (last'.op = "room-timeout" /\ rooms[RoomOf(last'.id)] = <<>>)
        => /\ last'.out = <<>>
           /\ sockets' = sockets
           /\ rooms' = rooms
           /\ connectionCounts' = connectionCounts
           /\ currentRoom' = currentRoom
           /\ roomTimeouts' = [roomTimeouts EXCEPT ![last'.id] = NoTimer]
      ]_vars

\* The timer of a room without members has fired while a connection is open.
C22_FiredForVanishedRoom ==
    /\ last.op = "room-timeout"
    /\ last.out = <<>>
    /\ last.id \in GameRoomNames
    /\ Members(last.id) = {}
    /\ sockets # {}
\* C23: no input makes an error leave an event handler.  A state that cannot
\* be serialized is dropped, a send-state without a usable payload is dropped,
\* a join-room without an acknowledgment function is dropped or refused; each
\* of them leaves the sender's current room the game room it is a member of,
\* if it was so before.
ErrorEscaped == last.op \in {"join-room-threw", "send-state-threw"}

TracksMembership(s) ==
    GameRoomsOf(s) = IF currentRoom[s] = Null THEN {} ELSE {currentRoom[s]}

C23_NoErrorEscapes ==
    [][ /\ ~ErrorEscaped'
        /\ (last'.op \in {"game-state-done", "send-state-done"}
              /\ last'.state \in {Undefined, Cyclic})
           => (last'.out = <<>> /\ last'.scheduled = {} /\ rooms' = rooms)
        /\ \A s \in SocketIds :
              (last'.op \in {"join-room-threw", "send-state-threw",
                            "game-state-done", "send-state-done"}
                 /\ last'.id = s /\ TracksMembership(s))
              => TracksMembership(s)' ]_vars

\* C24: a join-room request that carries an acknowledgment function is
\* answered exactly once.  The step that completes the handler issues exactly
\* one acknowledgment, to the requester; no other step issues one; a success
\* is acknowledged only when the requester is a member of the room; and every
\* suspended join is completed.
JoinAcksTo(out, s) ==
    { i \in 1..Len(out) : out[i].event = "join-room-ack" /\ out[i].to = s }

EventOfKind ==
    [ JOIN_ROOM |-> "join-room", GAME_STATE |-> "game-state",
      REQUEST_STATE |-> "request-state", SEND_STATE |-> "send-state" ]

BudgetExhausted(k, s) ==
    limiter[k][s].ttl > 0 /\ limiter[k][s].consumed >= RATE_LIMITS[k].points

C25_BudgetsIndependent ==
    [][ \A s \in SocketIds, k \in Kinds :
          (last'.op = EventOfKind[k] /\ last'.id = s
             /\ Len(pending'[s]) = Len(pending[s]) + 1)
          => /\ last'.allowed <=> ~BudgetExhausted(k, s)
             /\ pending'[s][Len(pending'[s])].allowed = last'.allowed
             /\ \A k2 \in Kinds, s2 \in SocketIds :
                   (<<k2, s2>> # <<k, s>>)
                   => /\ limiter'[k2][s2] = limiter[k2][s2]
                      /\ admitted'[k2][s2] = admitted[k2][s2] ]_vars

C25_AdmittedBesideExhaustedBudgets ==
    /\ last.op = "game-state" /\ last.id = Sid1 /\ last.allowed
    /\ pending[Sid1] # <<>>
    /\ limiter["JOIN_ROOM"][Sid1].consumed > JOIN_ROOM_POINTS
    /\ limiter["GAME_STATE"][Sid2].consumed > GAME_STATE_POINTS
    /\ socketIp[Sid1] = socketIp[Sid2]

\* C26: in every reachable state the active-room count of the status page is
\* the number of game rooms that have a member, and its active-player count
\* is the number of connections that are members of a game room.
JoinedRooms == UNION { GameRoomsOf(s) : s \in SocketIds }

C26_StatusCounts ==
    /\ getStats(World).activeRooms = Cardinality(JoinedRooms)
    /\ getStats(World).activePlayers =
          Cardinality({ s \in SocketIds : GameRoomsOf(s) # {} })

\* C27: in every reachable state the room names that have a timer entry are
\* the rooms that have a member, so the number of timer entries is the number
\* of rooms in use; also when a relay of a connection is suspended at its
\* rate-limit check while the connection leaves.
C27_TimerPerOccupiedRoom == TimerEntries = OccupiedRooms

\* C28: between events, when no handler of any connection is suspended, the
\* current room tracked for an open connection is the one game room the
\* connection is a member of, and is null when it is a member of none.
C28_CurrentRoomIsMembership ==
    (\A s \in SocketIds : pending[s] = <<>>)
        => \A s \in sockets : TracksMembership(s)

C30_ReplyMatchesRoom ==
    [][ (last'.op = "join-room-done" /\ LastAck'.success) =>
            /\ LastAck'.playerCount = Len(rooms'[RoomOf(last'.name)])
            /\ LastAck'.isRoomOwner
                  <=> SeqToSet(rooms'[RoomOf(last'.name)]) = {last'.id}
      ]_vars

\* ---------------------------------------------------------------------------
\* C31: an accepted game-state is relayed, unchanged, to every other member of
\* the sender's room and to nobody else. The sender's room is its current
\* room when the relay is made; accepted means admitted by the rate limit
\* with a state whose serialization is at most MAX_GAME_STATE_SIZE bytes.
RoomMates(s) ==
    IF currentRoom[s] = Null
    THEN {}
    ELSE (Members(RoomOf(currentRoom[s])) \cap sockets) \ {s}

StateAccepted(step) ==
    /\ step.allowed
    /\ ~JsonStringifyThrows(step.state)
    /\ SerializedBytes(step.state) <= MAX_GAME_STATE_SIZE

C31_GameStateToRoomMates ==
    [][ (last'.op = "game-state-done") =>
            /\ \A i \in 1..Len(last'.out) :
                  /\ last'.out[i].event = "game-state"
                  /\ last'.out[i].state = last'.state
                  /\ last'.out[i].to \in RoomMates(last'.id)
            /\ StateAccepted(last')
               => \A x \in RoomMates(last'.id) :
                     Cardinality({ i \in 1..Len(last'.out) : last'.out[i].to = x }) = 1
      ]_vars

\* ---------------------------------------------------------------------------
\* C32: a send-state delivers at most one message, a game-state carrying the
\* blob, and only to the target connection; when it is accepted (admitted,
\* blob within the size limit, target a connected member of the sender's
\* current room) it delivers exactly one.
C32_SendStateToTargetOnly ==
    [][ (last'.op = "send-state-done") =>
            /\ \A i \in 1..Len(last'.out) :
                  /\ last'.out[i].event = "game-state"
                  /\ last'.out[i].state = last'.state
                  /\ last'.out[i].to = last'.name
            /\ Len(last'.out) <= 1
            /\ (StateAccepted(last') /\ last'.name \in RoomMates(last'.id))
               => Len(last'.out) = 1
      ]_vars

\* ---------------------------------------------------------------------------
\* C33: an accepted request-state of a connection that is one of the two
\* members of its current room delivers exactly one message, a state-requested
\* to the other member with the sender's id as requesterId; when the sender is
\* the only member of its current room, nothing is delivered to anyone.
C33_StateRequestedToOtherMember ==
    [][ ( /\ last'.op = "request-state-done"
          /\ last'.allowed
          /\ currentRoom[last'.id] # Null
          /\ last'.id \in Members(RoomOf(currentRoom[last'.id])) )
        => LET s == last'.id
               members == Members(RoomOf(currentRoom[s]))
           IN  /\ members = {s} => last'.out = <<>>
               /\ Cardinality(members) = 2
                  => /\ Len(last'.out) = 1
                     /\ StateRequestedTo(last'.out[1], CHOOSE x \in members : x # s, s)
                     /\ last'.out[1].from = s
      ]_vars

\* ---------------------------------------------------------------------------
\* C34: on a successful join every connection that was a member of the room
\* before is sent exactly one player-joined, carrying the number of members
\* the room has after the join; the joiner is sent none; and each player-joined
\* is emitted before the acknowledgment.
PlayerJoinedTo(out, x) ==
    { i \in 1..Len(out) : out[i].event = "player-joined" /\ out[i].to = x }

C34_PlayerJoinedToMembers ==
    [][ (last'.op = "join-room-done" /\ LastAck'.success) =>
            LET s == last'.id
                r == RoomOf(last'.name)
            IN  /\ \A x \in (Members(r) \cap sockets) \ {s} :
                      /\ Cardinality(PlayerJoinedTo(last'.out, x)) = 1
                      /\ \A i \in PlayerJoinedTo(last'.out, x) :
                            last'.out[i].playerCount = Len(rooms'[r])
                /\ PlayerJoinedTo(last'.out, s) = {}
                /\ \A i \in 1..Len(last'.out) :
                      (last'.out[i].event = "player-joined")
                      => /\ i < Len(last'.out)
                         /\ last'.out[i].to \in Members(r)
      ]_vars

\* ---------------------------------------------------------------------------
\* C35: each time a leave-room, a successful join or a disconnect takes a
\* connection out of a game room, every other connected member of that room is
\* sent exactly one player-left for it, and the connection itself is sent none.
PlayerLeftCount(out, x, s) ==
    Cardinality({ i \in 1..Len(out) : PlayerLeftTo(out[i], x, s) })

C35_PlayerLeftOnDeparture ==
    [][ (last'.op \in {"leave-room", "join-room-done", "disconnect"}) =>
            \A s \in SocketIds : (s = last'.id) =>
                /\ \A r \in RoomKeys :
                      (r # s /\ s \in Members(r) /\ s \notin SeqToSet(rooms'[r]))
                      => \A x \in (Members(r) \cap sockets) \ {s} :
                            PlayerLeftCount(last'.out, x, s) = 1
                /\ \A i \in 1..Len(last'.out) :
                      last'.out[i].event = "player-left" => last'.out[i].to # s
      ]_vars

\* ---------------------------------------------------------------------------
\* C36: when a leave-room or a disconnect takes a connection out of a game
\* room, then, if the room is left empty, no timer entry for that room remains,
\* and if a member remains, the room's timer is what it was: neither
\* cancelled nor set anew.
TimerKeysOf(r) == { k \in RoomKeys : RoomOf(k) = r }

C36_TimerOnDeparture ==
    [][ (last'.op \in {"leave-room", "disconnect"}) =>
            \A s \in SocketIds, r \in RoomKeys :
                (s = last'.id /\ r # s /\ s \in Members(r)
                   /\ s \notin SeqToSet(rooms'[r]))
                => /\ rooms'[r] = <<>>
                      => \A k \in TimerKeysOf(r) : roomTimeouts'[k] = NoTimer
                   /\ rooms'[r] # <<>>
                      => /\ roomTimeouts'[r] = roomTimeouts[r]
                         /\ r \notin last'.scheduled
      ]_vars


\* C37: every room name has at most one pending timer, and it is the one the
\* roomTimeouts entry of the name holds, the one scheduled last (so a timer
\* that was superseded or cancelled is not pending and cannot fire); and when
\* a room comes into being, every timer pending under its name has just been
\* scheduled for it: none is left of an earlier room of that name.
C37_OneTimerPerName ==
    [][ /\ \A k \in RoomKeys :
              Cardinality({ t \in timers' : t.roomName = k }) <= 1
        /\ \A t \in timers' : roomTimeouts'[t.roomName] = t.left
        /\ \A r \in RoomKeys :
              (rooms[r] = <<>> /\ rooms'[r] # <<>>)
              => \A t \in timers' :
                    t.roomName = r => /\ t.left = ROOM_INACTIVITY_TIMEOUT_MS
                                      /\ r \in last'.scheduled ]_vars


\* C38: when the timer of a room fires while the room has members, the step
\* emits room-timeout to every member, in room order, before anything a
\* disconnection emits, and disconnects every member and nobody else; after
\* it the room is empty, no timer or entry of the room remains, and the count
\* of every address is lower by the number of its evicted connections.
EvictedFrom(r, ip) == { s \in SeqToSet(rooms[r]) \cap sockets : socketIp[s] = ip }

C38_EvictionOfRoom ==
    [][ \A r \in RoomKeys :
          (last'.op = "room-timeout" /\ last'.id = r /\ rooms[r] # <<>>)
          => LET to == SelectSeq(rooms[r], LAMBDA m : m \in sockets)
             IN  /\ Len(last'.out) >= Len(to)
                 /\ \A i \in 1..Len(last'.out) :
                       /\ last'.out[i].event = "room-timeout" <=> i <= Len(to)
                       /\ i <= Len(to) => last'.out[i].to = to[i]
                 /\ sockets' = sockets \ SeqToSet(rooms[r])
                 /\ rooms'[r] = <<>>
                 /\ roomTimeouts'[r] = NoTimer
                 /\ \A t \in timers' : t.roomName # r
                 /\ \A ip \in Addresses :
                       CountOf(connectionCounts', ip)
                           = CountOf(connectionCounts, ip)
                                 - Cardinality(EvictedFrom(r, ip)) ]_vars


\* The timer of "lobby" has just evicted the first connection, which was a
\* member of "room-2" as well: the second connection, a member of "room-2"
\* only, was told that the first left and is still connected.
C38_EvictedBesideOutsider ==
    /\ last.op = "room-timeout" /\ last.id = "lobby"
    /\ Len(last.out) = 2
    /\ last.out[1].event = "room-timeout" /\ last.out[1].to = Sid1
    /\ last.out[2].event = "player-left" /\ last.out[2].to = Sid2
    /\ sockets = {Sid2}
    /\ Members("room-2") = {Sid2}
    /\ connectionCounts[Ip1] = 1


\* C39: a connection that the timer of a room disconnects has that room as
\* its current room (so the timer of one room never disconnects a connection
\* whose current room is another, active or not).
C39_EvictedFromCurrentRoom ==
    [][ \A r \in RoomKeys, s \in SocketIds :
          (last'.op = "room-timeout" /\ last'.id = r
              /\ s \in sockets /\ s \notin sockets')
          => RoomOf(currentRoom[s]) = r ]_vars


\* C40: a game-state, request-state or send-state event of a connection with
\* no current room changes no budget and suspends nothing; every join-room
\* event takes one point of the connection's join-room budget, and of no
\* other, and suspends its handler whatever the name is, the check passing
\* when the points taken in the window do not exceed JOIN_ROOM_POINTS; the
\* handler then takes no further point, answers with the rate-limit reason
\* when the check failed, whatever the name, and with the invalid-name reason
\* when the check passed and the name is invalid.
C40_BudgetBeforeValidation ==
    [][ \A s \in SocketIds :
          /\ (last'.id = s /\ currentRoom[s] = Null
                 /\ last'.op \in {"game-state", "request-state", "send-state"})
             => limiter' = limiter /\ pending' = pending
          /\ (last'.id = s /\ last'.op = "join-room")
             => /\ limiter'["JOIN_ROOM"][s].consumed
                       = limiter["JOIN_ROOM"][s].consumed + 1
                /\ \A k \in Kinds, x \in SocketIds :
                      (k # "JOIN_ROOM" \/ x # s) => limiter'[k][x] = limiter[k][x]
                /\ Len(pending'[s]) = Len(pending[s]) + 1
                /\ pending'[s][Len(pending'[s])].allowed
                       <=> limiter'["JOIN_ROOM"][s].consumed <= JOIN_ROOM_POINTS
          /\ (last'.id = s /\ last'.op = "join-room-done")
             => /\ limiter' = limiter
                /\ ~Head(pending[s]).allowed
                   => /\ ~LastAck'.success
                      /\ LastAck'.error = "Too many requests. Please slow down."
                /\ (Head(pending[s]).allowed /\ ~IsValidRoomName(Head(pending[s]).name))
                   => /\ ~LastAck'.success
                      /\ LastAck'.error = "Invalid room name." ]_vars

\* The second connection has no current room and its join-room with an
\* invalid name was just refused for the rate limit: the attempts of the
\* window before it, all refused, took the budget.
C40_InvalidNameOverBudget ==
    /\ last.op = "join-room-done" /\ last.id = Sid2 /\ last.name = ""
    /\ ~last.allowed
    /\ LastAck.error = "Too many requests. Please slow down."
    /\ currentRoom[Sid2] = Null
    /\ limiter["JOIN_ROOM"][Sid2].consumed = JOIN_ROOM_POINTS + 1

=============================================================================
